---------------------------- MODULE Spec2Model ----------------------------
(***************************************************************************)
(* A model of the msru register accessor (src/src/lib.rs): one Msr owning  *)
(* a file handle on /dev/cpu/<cpu>/msr and an 8-byte buffer, the calls a   *)
(* caller can make on it, and the device node and filesystem it acts on.   *)
(*                                                                         *)
(* A u64 is a tuple of four 16-bit limbs, most significant first (TLC's    *)
(* integers are 32 bits wide); a byte is a number in 0..255; the buffer    *)
(* and the device contents are sequences of bytes in memory/offset order.  *)
(***************************************************************************)
EXTENDS Integers, Sequences, FiniteSets, TLC

\* ------------------------------------------------------------------ bounds
DevCap == 12
MaxCalls == 4

\* ------------------------------------------------------- program constants
BufLen == 8

Cpus == {0, 1}
Regs == {0, 3, 8}
Zero == <<0, 0, 0, 0>>
DeadBeef == <<57005, 48879, 51966, 47806>>
Ramp == <<258, 772, 1286, 1800>>
Vals == {Zero, DeadBeef, Ramp}
Endians == {"little", "big"}
\* the values of the codec specification: every u64 with these limbs
Limbs == {0, 256, 65535}
WideVals == [1..4 -> Limbs]

VARIABLES
    endian,  \* the build's byte order
    fs,      \* the paths that exist in the filesystem
    dev,     \* the contents of each device node, by offset
    alive,   \* whether the caller holds an accessor
    msr,     \* the accessor: reg, fh (the node opened and its position), buffer
    pc,      \* where Msr::new stands: "idle", or "open" after its existence check
    newArg,  \* the arguments of the Msr::new under way
    last,    \* the last call completed and what it returned
    hist,    \* what the caller did before: the values staged and read
    calls    \* the number of calls made

vars == <<endian, fs, dev, alive, msr, pc, newArg, last, hist, calls>>

\* ----------------------------------------------------------------- helpers
Min(a, b) == IF a < b THEN a ELSE b
Max(a, b) == IF a > b THEN a ELSE b
Reverse(s) == [i \in 1..Len(s) |-> s[Len(s) + 1 - i]]

\* format!("/dev/cpu/{cpu}/msr")
cpu_msr_path(cpu) == <<"dev", "cpu", cpu, "msr">>
Paths == {cpu_msr_path(c) : c \in Cpus}

\* u64::to_le_bytes / from_le_bytes on the limb representation
to_le_bytes(v) ==
    [k \in 1..BufLen |->
        (v[4 - ((k - 1) \div 2)] \div (IF (k - 1) % 2 = 0 THEN 1 ELSE 256)) % 256]
from_le_bytes(b) ==
    [j \in 1..4 |-> b[2 * (4 - j) + 1] + 256 * b[2 * (4 - j) + 2]]

\* u64::to_ne_bytes / u64::from_ne_bytes on the build's byte order
to_ne_bytes(v) ==
    IF endian = "little" THEN to_le_bytes(v) ELSE Reverse(to_le_bytes(v))
\* faulty variant: the buffer is decoded as little-endian on every build
from_fixed_le_bytes(b) == from_le_bytes(b)
from_ne_bytes(b) ==
    IF endian = "little" THEN from_le_bytes(b) ELSE from_le_bytes(Reverse(b))

\* Msr::read_value and Msr::set_value on an accessor record
read_value(m) == from_ne_bytes(m.buffer)
set_value(m, value) == [m EXCEPT !.buffer = to_ne_bytes(value)]

\* MsrError and Result
Ok(v) == [tag |-> "Ok", val |-> v, kind |-> ""]
MissingKernelModule == [tag |-> "MissingKernelModule", val |-> Zero, kind |-> ""]
IoError(kind) == [tag |-> "IoError", val |-> Zero, kind |-> kind]
\* faulty variant: an open that fails for a missing node is reported as the missing
\* module
from_io_error_enoent(kind) ==
    IF kind = "NotFound" THEN MissingKernelModule ELSE IoError(kind)
\* impl From<std::io::Error> for MsrError, applied by each `?`
from_io_error(kind) == IoError(kind)
NoRet == [tag |-> "", val |-> Zero, kind |-> ""]

\* the device: contents of the node at each offset
DevByte(i) == 160 + i
InitDev(n) == [i \in 1..n |-> DevByte(i - 1)]
InitLens == {0, 5, DevCap}

\* File::read_exact at position pos: the bytes the device yields, at most
\* BufLen, fewer at end-of-stream
Avail(d, pos) == Min(BufLen, Max(0, Len(d) - pos))
\* the buffer after n bytes were read into it from offset pos
Filled(buf, d, pos, n) ==
    [k \in 1..BufLen |-> IF k <= n THEN d[pos + k] ELSE buf[k]]

\* FileExt::write_all_at: the device after the first n bytes of buf were
\* stored from offset off (a hole before off reads as zero)
Stored(d, buf, off, n) ==
    IF n = 0 THEN d
    ELSE [i \in 1..Max(Len(d), off + n) |->
            IF i > off /\ i <= off + n THEN buf[i - off]
            ELSE IF i <= Len(d) THEN d[i] ELSE 0]
\* the bytes the device accepts from offset off before it is full
Room(off) == Min(BufLen, Max(0, DevCap - off))

NoMsr == [reg |-> 0, fh |-> [cpu |-> 0, pos |-> 0], buffer |-> [k \in 1..BufLen |-> 0]]
\* last: op, the call; ret, what it returned; for new: seen, what its
\* existence check answered, and opened, whether it went on to open the path
Log(op, ret, seen, opened) == [op |-> op, ret |-> ret, seen |-> seen, opened |-> opened]
Called(op, ret) == Log(op, ret, FALSE, FALSE)
\* hist: reg0, the register given to new; set, the value last staged by
\* set_value (hasSet: there is one); rd, the value of the last successful read
\* (hasRd); cur, the later of the two (zero after construction); chain, how far
\* the caller is in set_value(chainV); write() succeeding; read(); fresh, no
\* read() was called since the last set_value
NoHist ==
    [reg0 |-> 0, hasSet |-> FALSE, set |-> Zero, hasRd |-> FALSE, rd |-> Zero,
     cur |-> Zero, fresh |-> FALSE, chain |-> 0, chainV |-> Zero, chainRet |-> NoRet]
Unchain(h) == [h EXCEPT !.chain = 0, !.chainV = Zero, !.chainRet = NoRet]

\* the node the handle is open on
Node(m) == cpu_msr_path(m.fh.cpu)
\* the 8 device bytes at offsets [off, off + 8)
\* (-1 where the device has no byte)
Window(d, off) == [k \in 1..BufLen |-> IF off + k <= Len(d) THEN d[off + k] ELSE -1]

Init ==
    /\ endian \in Endians
    /\ fs \in SUBSET Paths
    /\ \E n \in InitLens : dev = [p \in Paths |-> InitDev(n)]
    /\ alive = FALSE
    /\ msr = NoMsr
    /\ pc = "idle"
    /\ newArg = [reg |-> 0, cpu |-> 0, seen |-> FALSE]
    /\ last = Called("init", NoRet)
    /\ hist = NoHist
    /\ calls = 0

\* Path::exists on the path
exists(path) == path \in fs
\* faulty variant: new without the existence check: the open reports the failure
new_without_check(seen) == "open"
\* what Msr::new does after its existence check answered seen (lines 56-58)
new_after_exists(seen) == IF ~seen THEN "return" ELSE "open"

\* Msr::new up to its existence check (lines 55-58)
NewExists(reg, cpu) ==
    /\ pc = "idle" /\ ~alive /\ calls < MaxCalls
    /\ calls' = calls + 1
    /\ LET seen == exists(cpu_msr_path(cpu))
       IN /\ newArg' = [reg |-> reg, cpu |-> cpu, seen |-> seen]
          /\ IF new_after_exists(seen) = "return"
             THEN /\ last' = Log("new", MissingKernelModule, seen, FALSE)
                  /\ UNCHANGED pc
             ELSE /\ pc' = "open"
                  /\ last' = Log("exists", NoRet, seen, FALSE)
    /\ UNCHANGED <<endian, fs, dev, alive, msr, hist>>

\* Msr::new from its open on (lines 59-66); denied: the OS refuses the open
NewOpen(denied) ==
    /\ pc = "open"
    /\ pc' = "idle"
    /\ IF ~exists(cpu_msr_path(newArg.cpu))
       THEN /\ last' = Log("new", from_io_error("NotFound"), newArg.seen, TRUE)
            /\ UNCHANGED <<alive, msr, hist>>
       ELSE IF denied
       THEN /\ last' = Log("new", from_io_error("PermissionDenied"), newArg.seen, TRUE)
            /\ UNCHANGED <<alive, msr, hist>>
       ELSE /\ alive' = TRUE
            /\ msr' = [reg |-> newArg.reg,
                       fh |-> [cpu |-> newArg.cpu, pos |-> 0],
                       buffer |-> [k \in 1..BufLen |-> 0]]
            /\ hist' = [NoHist EXCEPT !.reg0 = newArg.reg]
            /\ last' = Log("new", Ok(Zero), newArg.seen, TRUE)
    /\ UNCHANGED <<endian, fs, dev, newArg, calls>>

\* a call on the accessor can start
Callable == alive /\ pc = "idle" /\ calls < MaxCalls

\* Msr::set_value(value)
SetValue(value) ==
    /\ Callable
    /\ calls' = calls + 1
    /\ msr' = set_value(msr, value)
    /\ last' = Called("set_value", Ok(value))
    /\ hist' = [hist EXCEPT !.hasSet = TRUE, !.set = value, !.cur = value,
                            !.fresh = TRUE,
                            !.chain = 1, !.chainV = value, !.chainRet = NoRet]
    /\ UNCHANGED <<endian, fs, dev, alive, pc, newArg>>

\* Msr::read_value()
ReadValue ==
    /\ Callable
    /\ calls' = calls + 1
    /\ last' = Called("read_value", Ok(read_value(msr)))
    /\ UNCHANGED <<endian, fs, dev, alive, msr, pc, newArg, hist>>

\* faulty variant: read without its seek: it reads from where the handle stands
read_offset_noseek(m) == m.fh.pos
\* the offset Msr::read seeks to: SeekFrom::Start(self.reg.into())
read_offset(m) == m.reg
\* faulty variant: the position moves by n from where it stood before the seek
pos_after_read_rel(m, n) == m.fh.pos + n
\* the position read_exact leaves after n bytes
pos_after_read(m, n) == read_offset(m) + n
\* the accessor after read_exact took n bytes of d
after_read(m, d, n) ==
    [m EXCEPT !.fh.pos = pos_after_read(m, n),
              !.buffer = Filled(m.buffer, d, read_offset(m), n)]
\* faulty variant: a plain read in place of read_exact: a short read is a success
read_result_short_ok(m, n) == Ok(read_value(m))
\* what Msr::read returns after read_exact took n bytes
read_result(m, n) ==
    IF n = BufLen THEN Ok(read_value(m)) ELSE from_io_error("UnexpectedEof")

\* <Msr as Accessor>::read(); fault: the OS fails the seek ("seek"), or the
\* read before any byte ("read"), or neither ("none")
Read(fault) ==
    /\ Callable
    /\ calls' = calls + 1
    /\ LET d == dev[Node(msr)]
           n == Avail(d, read_offset(msr))
           m == after_read(msr, d, IF fault = "none" THEN n ELSE 0)
           ret == IF fault = "none" THEN read_result(m, n) ELSE from_io_error("Other")
       IN /\ msr' = IF fault = "seek" THEN msr ELSE m
          /\ last' = Called("read", ret)
          /\ hist' = LET h == [hist EXCEPT !.fresh = FALSE]
                         c == IF fault = "none" /\ hist.chain = 2
                              THEN [h EXCEPT !.chain = 3, !.chainRet = ret]
                              ELSE Unchain(h)
                     IN IF ret.tag = "Ok"
                        THEN [c EXCEPT !.hasRd = TRUE, !.rd = ret.val, !.cur = ret.val]
                        ELSE c
    /\ UNCHANGED <<endian, fs, dev, alive, pc, newArg>>

\* faulty variant: a plain write in place of the positioned one: it lands where the
\* handle stands
write_offset_at_pos(m) == m.fh.pos
\* the offset Msr::write passes to write_all_at: self.reg.into()
write_offset(m) == m.reg
\* the handle's position after write_all_at wrote n bytes: pwrite leaves it
pos_after_write(m, n) == m.fh.pos
\* what Msr::write returns after the device took n bytes
write_result(n) == IF n = BufLen THEN Ok(Zero) ELSE from_io_error("WriteZero")

\* <Msr as Accessor>::write(); fault: the OS fails the write before any byte
Write(fault) ==
    /\ Callable
    /\ calls' = calls + 1
    /\ LET n == IF fault THEN 0 ELSE Room(write_offset(msr))
           ret == IF fault THEN from_io_error("Other") ELSE write_result(n)
       IN /\ dev' = [dev EXCEPT ![Node(msr)] = Stored(@, msr.buffer, write_offset(msr), n)]
          /\ msr' = [msr EXCEPT !.fh.pos = pos_after_write(msr, n)]
          /\ last' = Called("write", ret)
          /\ hist' = IF ret.tag = "Ok" /\ hist.chain = 1
                     THEN [hist EXCEPT !.chain = 2]
                     ELSE Unchain(hist)
    /\ UNCHANGED <<endian, fs, alive, pc, newArg>>

\* the caller assigns the public field: msr.reg = reg
SetReg(reg) ==
    /\ Callable
    /\ calls' = calls + 1
    /\ msr' = [msr EXCEPT !.reg = reg]
    /\ last' = Called("set_reg", NoRet)
    /\ hist' = Unchain(hist)
    /\ UNCHANGED <<endian, fs, dev, alive, pc, newArg>>

\* the caller discards the accessor; the handle is closed
Drop ==
    /\ alive /\ pc = "idle"
    /\ alive' = FALSE
    /\ msr' = NoMsr
    /\ hist' = NoHist
    /\ last' = Called("drop", NoRet)
    /\ UNCHANGED <<endian, fs, dev, pc, newArg, calls>>

\* the msr kernel module is loaded or unloaded: the node of cpu appears or
\* vanishes
FsChange(cpu) ==
    /\ fs' = IF exists(cpu_msr_path(cpu)) THEN fs \ {cpu_msr_path(cpu)}
                                         ELSE fs \cup {cpu_msr_path(cpu)}
    /\ UNCHANGED <<endian, dev, alive, msr, pc, newArg, last, hist, calls>>

Next ==
    \/ \E reg \in Regs, cpu \in Cpus : NewExists(reg, cpu)
    \/ \E denied \in BOOLEAN : NewOpen(denied)
    \/ \E value \in Vals : SetValue(value)
    \/ ReadValue
    \/ \E fault \in {"none", "seek", "read"} : Read(fault)
    \/ \E fault \in BOOLEAN : Write(fault)
    \/ \E reg \in Regs : SetReg(reg)
    \/ Drop
    \/ \E cpu \in Cpus : FsChange(cpu)

Spec == Init /\ [][Next]_vars

\* The codec on a wider set of values: an accessor just constructed on the
\* node of cpu 0, then set_value, read_value and assignments of reg.
CodecInit ==
    /\ endian \in Endians
    /\ fs = Paths
    /\ dev = [p \in Paths |-> InitDev(DevCap)]
    /\ alive = TRUE
    /\ \E reg \in Regs :
          /\ msr = [NoMsr EXCEPT !.reg = reg]
          /\ newArg = [reg |-> reg, cpu |-> 0, seen |-> TRUE]
          /\ hist = [NoHist EXCEPT !.reg0 = reg]
    /\ pc = "idle"
    /\ last = Log("new", Ok(Zero), TRUE, TRUE)
    /\ calls = 1

CodecNext ==
    \/ \E value \in WideVals : SetValue(value)
    \/ ReadValue
    \/ \E reg \in Regs : SetReg(reg)

SpecCodec == CodecInit /\ [][CodecNext]_vars

\* ------------------------------------------------------------------ claims
ZeroBuf == [k \in 1..BufLen |-> 0]
\* the device bytes under the accessor's register
RegWindow == Window(dev[Node(msr)], msr.reg)
\* the step is a completed write() / set_value()
WriteStep == calls' = calls + 1 /\ last'.op = "write"
SetValueStep == calls' = calls + 1 /\ last'.op = "set_value"

\* C1: after set_value(v), a write() that succeeds and then a read() that the
\* device serves, all on the same register and with no other call between
\* them, the read returns Ok(v).
C1_WriteThenRead ==
    hist.chain = 3 => hist.chainRet = Ok(hist.chainV)
C1_Witness ==
    /\ hist.chain = 3 /\ hist.chainV = DeadBeef /\ hist.chainRet.tag = "Ok"
    /\ msr.reg = 3 /\ last.op = "read"

\* C2: a new whose existence check finds no node at /dev/cpu/<cpu>/msr returns
\* MissingKernelModule, attempts no open and creates no accessor.
C2_MissingModule ==
    (last.op = "new" /\ ~last.seen) =>
        /\ last.ret = MissingKernelModule
        /\ ~last.opened
        /\ ~alive
C2_Witness ==
    /\ last.op = "new" /\ ~last.seen /\ newArg.cpu = 1
    /\ exists(cpu_msr_path(0)) /\ ~exists(cpu_msr_path(1))

\* C3: whatever position earlier reads left the handle at, write() leaves that
\* position as it was, and a write() that succeeds has stored the 8 buffer
\* bytes at device offsets [reg, reg + 8) of the accessor's register.
C3_WriteIgnoresPosition ==
    [][WriteStep =>
        /\ msr'.fh.pos = msr.fh.pos
        /\ last'.ret.tag = "Ok" => Window(dev'[Node(msr)], msr.reg) = msr.buffer]_vars
C3_Witness ==
    /\ last.op = "write" /\ last.ret.tag = "Ok"
    /\ msr.reg = 3 /\ msr.fh.pos = 8 /\ RegWindow = msr.buffer

\* C4: a read() that finds fewer than 8 bytes from offset reg to the end of
\* the device returns Err(IoError(..)) and no value.
C4_ShortRead ==
    (alive /\ last.op = "read" /\ Len(dev[Node(msr)]) - msr.reg < BufLen) =>
        /\ last.ret.tag = "IoError"
        /\ last.ret.val = Zero
C4_Witness ==
    /\ alive /\ last.op = "read" /\ last.ret.kind = "UnexpectedEof"
    /\ Len(dev[Node(msr)]) - msr.reg \in 1..(BufLen - 1)

\* C5: what read_value() returns is the value last staged by set_value, the
\* zero initial value, or the 8 bytes of one successful read, never a mix of
\* the bytes of a read with the bytes the buffer held before it.
C5_NoPartialBuffer ==
    last.op = "read_value" =>
        last.ret.val \in {Zero}
            \cup (IF hist.hasSet THEN {hist.set} ELSE {})
            \cup (IF hist.hasRd THEN {hist.rd} ELSE {})

\* C6: read_value() after set_value(v), with no read() between the two,
\* returns v, for every v and on either byte order.
C6_RoundTrip ==
    (last.op = "read_value" /\ hist.fresh) => last.ret = Ok(hist.set)
C6_Witness ==
    /\ last.op = "read_value" /\ hist.fresh /\ hist.set = <<65535, 256, 0, 256>>
    /\ endian = "big" /\ msr.buffer = <<255, 255, 1, 0, 0, 0, 1, 0>>

\* C7: as long as the accessor lives, its register is the one given to new.
C7_RegisterImmutable ==
    alive => msr.reg = hist.reg0

\* C8: after a read() that returned Ok(x), the buffer holds the 8 device bytes
\* at offsets [reg, reg + 8), x is their native-order value, and the handle
\* stands at reg + 8, whatever the buffer held before.
C8_ReadPostState ==
    (alive /\ last.op = "read" /\ last.ret.tag = "Ok") =>
        /\ msr.buffer = RegWindow
        /\ to_ne_bytes(last.ret.val) = RegWindow
        /\ msr.fh.pos = msr.reg + BufLen
C8_Witness ==
    /\ alive /\ last.op = "read" /\ last.ret.tag = "Ok"
    /\ ~hist.hasSet /\ msr.reg = 3 /\ msr.buffer # ZeroBuf

\* C9: a write() that succeeds has stored at device offset reg the value of the
\* latest set_value or successful read (zero when there was none).
C9_WritePushesStaged ==
    (alive /\ last.op = "write" /\ last.ret.tag = "Ok") =>
        RegWindow = to_ne_bytes(hist.cur)
\* the rest of C9: write() leaves buffer and reg as they were, and set_value
\* changes neither the device nor the handle's position nor reg.
C9_Frame ==
    [][/\ WriteStep => msr'.buffer = msr.buffer /\ msr'.reg = msr.reg
       /\ SetValueStep => dev' = dev /\ msr'.fh = msr.fh /\ msr'.reg = msr.reg]_vars

\* C10: new returns MissingKernelModule only when its existence check found
\* no node; once the check found the node, a failing open is returned as
\* IoError with the OS error, also when the node vanished in between; and on
\* success the accessor has a zero buffer and the register given.
C10_NewClassification ==
    last.op = "new" =>
        /\ last.ret.tag = "MissingKernelModule" => ~last.seen /\ ~last.opened
        /\ (last.seen /\ last.ret.tag # "Ok") =>
                last.ret.tag = "IoError" /\ last.ret.kind \in {"NotFound", "PermissionDenied"}
        /\ last.ret.tag = "Ok" =>
                /\ alive /\ last.seen
                /\ msr.buffer = ZeroBuf /\ read_value(msr) = Zero
                /\ msr.reg = newArg.reg
C10_Witness ==
    /\ last.op = "new" /\ last.seen /\ last.ret = IoError("NotFound")
    /\ ~exists(cpu_msr_path(newArg.cpu))
=============================================================================
